---- MODULE Spec2Model ----
(***************************************************************************)
(* Client-side codecs and instruction assemblers of the data-storage       *)
(* program (src/testCodecs/getCodecs.mts), together with the end-to-end    *)
(* script that drives them against the ledger.                             *)
(*                                                                         *)
(* Bytes are integers 0..255, byte arrays are sequences.  A JavaScript     *)
(* string is a sequence of code points; an Address is the 256-bit number   *)
(* its base58 text denotes (so "1111...1111" is 0).                        *)
(***************************************************************************)
EXTENDS Integers, Sequences, FiniteSets, TLC

VARIABLES
    op,        \* name of the last operation performed by the client
    args,      \* its inputs
    ix,        \* what the last operation assembled or encoded (NoIx: nothing)
    decoded,   \* what the last operation decoded (NotFound: nothing)
    ledger,    \* ledger accounts at the derived addresses (absent or bytes)
    phase,     \* per derived address: NonExistent / Created / Edited / Closed
    edits,     \* per derived address: successful Edits since creation
    born,      \* per derived address: the account as it was created
    clock,     \* ledger clock (unix timestamp of the next transaction)
    txOk,      \* whether the last submitted transaction was confirmed
    before     \* the account at the instruction's address before that transaction

vars == <<op, args, ix, decoded, ledger, phase, edits, born, clock, txOk, before>>

-----------------------------------------------------------------------------
(* Bounds of the model *)

MaxLabelPad == 4     \* labels run up to LabelSize - 3 + MaxLabelPad letters, then a tail
MaxTail == 2         \* length of the tail of a label drawn from Chars
MaxDataLen == 2      \* length of small data arrays
MaxClock == 3        \* transactions submitted to the ledger in one run
GenesisTime == 1     \* ledger clock at the first transaction

(* Program constants *)

LabelSize == 30
SYSTEM_PROGRAM_ID == 0
DATA_STORAGE_PROGRAM_ID == 77
USER_KEYPAIR == 5

-----------------------------------------------------------------------------
(* Byte-array helpers *)

Zeros(n) == [i \in 1..n |-> 0]

Take(s, n) == SubSeq(s, 1, n)

Drop(s, n) == SubSeq(s, n + 1, Len(s))

\* Concatenation of ss[lo..hi], by halves.
RECURSIVE FlattenRange(_, _, _)
FlattenRange(ss, lo, hi) ==
    IF lo > hi THEN <<>>
    ELSE IF lo = hi THEN ss[lo]
    ELSE FlattenRange(ss, lo, (lo + hi) \div 2) \o FlattenRange(ss, (lo + hi) \div 2 + 1, hi)

Flatten(ss) == FlattenRange(ss, 1, Len(ss))

RECURSIVE SeqsUpTo(_, _)
SeqsUpTo(S, n) ==
    IF n = 0 THEN {<<>>}
    ELSE LET shorter == SeqsUpTo(S, n - 1)
         IN  shorter \cup {Append(s, x) : s \in {t \in shorter : Len(t) = n - 1}, x \in S}

-----------------------------------------------------------------------------
(* @solana/codecs primitives used by the source *)

\* An encoder returns [ok, bytes]; ok = FALSE is a thrown SolanaError.
Encoded(bytes) == [ok |-> TRUE, bytes |-> bytes]

EncodeError == [ok |-> FALSE, bytes |-> <<>>]

\* getU8Encoder(): one byte, throws when the number is out of range.
getU8Encoder(v) == IF v \in 0..255 THEN Encoded(<<v>>) ELSE EncodeError

\* TextEncoder: UTF-8 of one code point (BMP, no surrogates).
Utf8OfCodePoint(cp) ==
    IF cp < 128 THEN <<cp>>
    ELSE IF cp < 2048 THEN <<192 + (cp \div 64), 128 + (cp % 64)>>
    ELSE <<224 + (cp \div 4096), 128 + ((cp \div 64) % 64), 128 + (cp % 64)>>

\* getUtf8Encoder().encode(string)
getUtf8Encoder(str) == Flatten([i \in 1..Len(str) |-> Utf8OfCodePoint(str[i])])

\* fixEncoderSize(encoder, n): cut to n bytes, or written into n zeroed bytes.
fixEncoderSize_noCut(bytes, n) ==
    IF Len(bytes) > n THEN bytes ELSE bytes \o Zeros(n - Len(bytes))

fixEncoderSize(bytes, n) ==
    IF Len(bytes) > n THEN Take(bytes, n) ELSE bytes \o Zeros(n - Len(bytes))

\* getArrayEncoder(getU8Encoder(), { size }): the items, no prefix; throws when
\* the array does not have exactly `size` items.
getArrayEncoder(items, size) ==
    IF Len(items) # size \/ \E i \in 1..Len(items) : items[i] \notin 0..255
    THEN EncodeError
    ELSE Encoded(items)

\* getStructEncoder: the fields' encodings in order; a throw in any field throws.
getStructEncoder(fields) ==
    IF \E i \in 1..Len(fields) : ~fields[i].ok THEN EncodeError
    ELSE Encoded(Flatten([i \in 1..Len(fields) |-> fields[i].bytes]))

\* A value object handed to an encoder is a record of its fields; the
\* discriminator field is NoField when the caller's object has none (null
\* spreads to no fields at all).
NoField == -1

\* value => ({ discriminator: d, ...value })
SetDiscriminator_callerWins(value, d) ==
    IF value.discriminator # NoField THEN value ELSE [value EXCEPT !.discriminator = d]

\* value => ({ ...value, discriminator: d })
SetDiscriminator(value, d) == [value EXCEPT !.discriminator = d]

-----------------------------------------------------------------------------
(* Instruction payload encoders *)

getCreateDataStorageAccountInstructionDataEncoder(data_size, value) ==
    LET v == SetDiscriminator(value, 0)
    IN  getStructEncoder(<<getU8Encoder(v.discriminator),
                           Encoded(fixEncoderSize(getUtf8Encoder(v.label), LabelSize)),
                           getArrayEncoder(v.data, data_size)>>)

\* the Close discriminator pasted into the Edit encoder
getEditDataStorageAccountInstructionDataEncoder_tag2(data_size, value) ==
    LET v == SetDiscriminator(value, 2)
    IN  getStructEncoder(<<getU8Encoder(v.discriminator),
                           getArrayEncoder(v.newData, data_size)>>)

getEditDataStorageAccountInstructionDataEncoder(data_size, value) ==
    LET v == SetDiscriminator(value, 1)
    IN  getStructEncoder(<<getU8Encoder(v.discriminator),
                           getArrayEncoder(v.newData, data_size)>>)

\* the Edit discriminator pasted into the Close encoder
getCloseDataStorageAccountInstructionDataEncoder_tag1(value) ==
    LET v == SetDiscriminator(value, 1)
    IN  getStructEncoder(<<getU8Encoder(v.discriminator)>>)

getCloseDataStorageAccountInstructionDataEncoder(value) ==
    LET v == SetDiscriminator(value, 2)
    IN  getStructEncoder(<<getU8Encoder(v.discriminator)>>)

-----------------------------------------------------------------------------
(* Instruction assemblers *)

Meta(address, role) == [address |-> address, role |-> role]

Instruction(accounts, data) ==
    [programAddress |-> DATA_STORAGE_PROGRAM_ID, accounts |-> accounts, data |-> data]

\* authority and funding account in each other's place
getCreateDataStorageAccountInstruction_swapped(params) ==
    Instruction(
        <<Meta(params.new_data_storage_pda, "WRITABLE"),
          Meta(params.funding_account, "READONLY_SIGNER"),
          Meta(params.data_storage_authority, "WRITABLE_SIGNER"),
          Meta(SYSTEM_PROGRAM_ID, "READONLY")>>,
        getCreateDataStorageAccountInstructionDataEncoder(
            Len(params.data),
            [discriminator |-> NoField, label |-> params.label, data |-> params.data]))

getCreateDataStorageAccountInstruction(params) ==
    Instruction(
        <<Meta(params.new_data_storage_pda, "WRITABLE"),
          Meta(params.data_storage_authority, "READONLY_SIGNER"),
          Meta(params.funding_account, "WRITABLE_SIGNER"),
          Meta(SYSTEM_PROGRAM_ID, "READONLY")>>,
        getCreateDataStorageAccountInstructionDataEncoder(
            Len(params.data),
            [discriminator |-> NoField, label |-> params.label, data |-> params.data]))

getEditDataStorageAccountWithNewDataLenIsEqualToOldDataLenInstruction(params) ==
    Instruction(
        <<Meta(params.data_storage_pda, "WRITABLE"),
          Meta(params.data_storage_authority, "READONLY_SIGNER")>>,
        getEditDataStorageAccountInstructionDataEncoder(
            Len(params.new_data), [discriminator |-> NoField, newData |-> params.new_data]))

\* the rent receiver left out of the account list
getEditDataStorageAccountWithNewDataLenLessIsThanOldDataLenInstruction_noReceiver(params) ==
    Instruction(
        <<Meta(params.data_storage_pda, "WRITABLE"),
          Meta(params.data_storage_authority, "READONLY_SIGNER")>>,
        getEditDataStorageAccountInstructionDataEncoder(
            Len(params.new_data), [discriminator |-> NoField, newData |-> params.new_data]))

getEditDataStorageAccountWithNewDataLenLessIsThanOldDataLenInstruction(params) ==
    Instruction(
        <<Meta(params.data_storage_pda, "WRITABLE"),
          Meta(params.data_storage_authority, "READONLY_SIGNER"),
          Meta(params.rent_receiver_account, "WRITABLE")>>,
        getEditDataStorageAccountInstructionDataEncoder(
            Len(params.new_data), [discriminator |-> NoField, newData |-> params.new_data]))

\* the account list of the shrinking variant pasted into the growing one
getEditDataStorageAccountWithNewDataLenIsBiggerThanOldDataLenInstruction_asLess(params) ==
    Instruction(
        <<Meta(params.data_storage_pda, "WRITABLE"),
          Meta(params.data_storage_authority, "READONLY_SIGNER"),
          Meta(params.funding_account, "WRITABLE")>>,
        getEditDataStorageAccountInstructionDataEncoder(
            Len(params.new_data), [discriminator |-> NoField, newData |-> params.new_data]))

getEditDataStorageAccountWithNewDataLenIsBiggerThanOldDataLenInstruction(params) ==
    Instruction(
        <<Meta(params.data_storage_pda, "WRITABLE"),
          Meta(params.data_storage_authority, "READONLY_SIGNER"),
          Meta(params.funding_account, "WRITABLE_SIGNER"),
          Meta(SYSTEM_PROGRAM_ID, "READONLY")>>,
        getEditDataStorageAccountInstructionDataEncoder(
            Len(params.new_data), [discriminator |-> NoField, newData |-> params.new_data]))

getCloseDataStorageAccountInstruction(params) ==
    Instruction(
        <<Meta(params.data_storage_pda, "WRITABLE"),
          Meta(params.data_storage_authority, "READONLY_SIGNER"),
          Meta(params.rent_exempt_receiver_account, "WRITABLE")>>,
        getCloseDataStorageAccountInstructionDataEncoder([discriminator |-> NoField]))

-----------------------------------------------------------------------------
(* Decoders of @solana/codecs used by getDataStorageAccountDecoder.  A decoder's
   read(bytes, offset) returns [ok, value, offset]; ok = FALSE is a thrown
   SolanaError (the spec's LayoutError).  Offsets are 0-based as in the code. *)

Read(value, offset) == [ok |-> TRUE, value |-> value, offset |-> offset]

ReadError == [ok |-> FALSE, value |-> 0, offset |-> 0]

\* assertByteArrayIsNotEmptyForCodec and assertByteArrayHasEnoughBytesForCodec
HasBytes(bytes, offset, n) == Len(bytes) - offset >= n /\ Len(bytes) - offset > 0

Slice(bytes, offset, n) == SubSeq(bytes, offset + 1, offset + n)

RECURSIVE Horner(_, _)
Horner(bytes, acc) ==
    IF bytes = <<>> THEN acc ELSE Horner(Tail(bytes), acc * 256 + Head(bytes))

\* Big-endian number of a byte array (the number a base58 text denotes);
\* leading zero bytes add nothing.
BigEndian(bytes) ==
    LET nz == {i \in 1..Len(bytes) : bytes[i] # 0}
    IN  IF nz = {} THEN 0
        ELSE Horner(SubSeq(bytes, CHOOSE i \in nz : \A j \in nz : i <= j, Len(bytes)), 0)

Reverse(s) == [i \in 1..Len(s) |-> s[Len(s) + 1 - i]]

LittleEndian(bytes) == BigEndian(Reverse(bytes))

\* getAddressDecoder(): 32 bytes read as a base58 address.
getAddressDecoder(bytes, offset) ==
    IF Len(bytes) - offset < 32 THEN ReadError
    ELSE Read(BigEndian(Slice(bytes, offset, 32)), offset + 32)

\* TextDecoder("utf-8"), non-fatal: the WHATWG UTF-8 decoder, malformed input
\* becomes U+FFFD (65533).
RECURSIVE Utf8Decode(_, _, _, _, _, _)
Utf8Decode(bytes, i, cp, needed, lower, upper) ==
    IF i > Len(bytes) THEN (IF needed # 0 THEN <<65533>> ELSE <<>>)
    ELSE LET b == bytes[i] IN
         IF needed = 0 THEN
            IF b <= 127 THEN <<b>> \o Utf8Decode(bytes, i + 1, 0, 0, 128, 191)
            ELSE IF b \in 194..223 THEN Utf8Decode(bytes, i + 1, b - 192, 1, 128, 191)
            ELSE IF b \in 224..239 THEN
                Utf8Decode(bytes, i + 1, b - 224, 2,
                           IF b = 224 THEN 160 ELSE 128, IF b = 237 THEN 159 ELSE 191)
            ELSE IF b \in 240..244 THEN
                Utf8Decode(bytes, i + 1, b - 240, 3,
                           IF b = 240 THEN 144 ELSE 128, IF b = 244 THEN 143 ELSE 191)
            ELSE <<65533>> \o Utf8Decode(bytes, i + 1, 0, 0, 128, 191)
         ELSE IF b \notin lower..upper THEN
            <<65533>> \o Utf8Decode(bytes, i, 0, 0, 128, 191)
         ELSE IF needed = 1 THEN
            <<cp * 64 + (b - 128)>> \o Utf8Decode(bytes, i + 1, 0, 0, 128, 191)
         ELSE Utf8Decode(bytes, i + 1, cp * 64 + (b - 128), needed - 1, 128, 191)

\* new TextDecoder().decode(bytes): a leading byte-order mark is dropped.
TextDecode(bytes) ==
    LET cps == Utf8Decode(bytes, 1, 0, 0, 128, 191)
    IN  IF cps # <<>> /\ Head(cps) = 65279 THEN Tail(cps) ELSE cps

\* removeNullCharacters: value.replace(/\u0000/g, "")
removeNullCharacters(str) == SelectSeq(str, LAMBDA c : c # 0)

StripTrailingZeros(s) ==
    LET nz == {i \in 1..Len(s) : s[i] # 0}
    IN  IF nz = {} THEN <<>> ELSE Take(s, CHOOSE i \in nz : \A j \in nz : j <= i)

\* getUtf8Decoder(): decodes all the bytes it is given and removes the NULs.
getUtf8Decoder(bytes) == removeNullCharacters(TextDecode(bytes))

\* fixDecoderSize(getUtf8Decoder(), n)
fixDecoderSize(bytes, offset, n) ==
    IF Len(bytes) - offset < n THEN ReadError
    ELSE Read(getUtf8Decoder(Slice(bytes, offset, n)), offset + n)

\* getI64Decoder(): 8 bytes, little-endian, two's complement.
getI64Decoder(bytes, offset) ==
    IF ~HasBytes(bytes, offset, 8) THEN ReadError
    ELSE LET b == Slice(bytes, offset, 8)
         IN  Read(IF b[8] >= 128
                  THEN -(1 + LittleEndian([i \in 1..8 |-> 255 - b[i]]))
                  ELSE LittleEndian(b),
                  offset + 8)

getU8Decoder(bytes, offset) ==
    IF ~HasBytes(bytes, offset, 1) THEN ReadError
    ELSE Read(bytes[offset + 1], offset + 1)

\* getBooleanDecoder(): a u8 mapped by Number(value) === 1
getBooleanDecoder(bytes, offset) ==
    LET r == getU8Decoder(bytes, offset)
    IN  IF r.ok THEN Read(r.value = 1, r.offset) ELSE ReadError

getU16Decoder(bytes, offset) ==
    IF ~HasBytes(bytes, offset, 2) THEN ReadError
    ELSE Read(LittleEndian(Slice(bytes, offset, 2)), offset + 2)

\* getArrayDecoder(getU8Decoder(), { size: getU16Decoder() }): with a prefix
\* codec as size, no bytes left at the offset reads as the empty array;
\* otherwise the prefix is read and then that many items, one by one.
getArrayDecoder(bytes, offset) ==
    IF Len(bytes) - offset <= 0 THEN Read(<<>>, offset)
    ELSE LET size == getU16Decoder(bytes, offset)
         IN  IF ~size.ok THEN ReadError
             ELSE IF Len(bytes) - size.offset < size.value THEN ReadError
             ELSE Read(Slice(bytes, size.offset, size.value), size.offset + size.value)

\* decode(bytes) of the struct decoder: the fields in order, each read at the
\* offset the one before it left; [ok, value].
Decoded(value) == [ok |-> TRUE, value |-> value]

LayoutError == [ok |-> FALSE, value |-> "LayoutError"]

\* isInitialized and canonicalBump in each other's place
getDataStorageAccountDecoder_swapped(bytes) ==
    LET authority == getAddressDecoder(bytes, 0) IN
    IF ~authority.ok THEN LayoutError ELSE
    LET label == fixDecoderSize(bytes, authority.offset, LabelSize) IN
    IF ~label.ok THEN LayoutError ELSE
    LET lastUpdated == getI64Decoder(bytes, label.offset) IN
    IF ~lastUpdated.ok THEN LayoutError ELSE
    LET isInitialized == getBooleanDecoder(bytes, lastUpdated.offset) IN
    IF ~isInitialized.ok THEN LayoutError ELSE
    LET canonicalBump == getU8Decoder(bytes, isInitialized.offset) IN
    IF ~canonicalBump.ok THEN LayoutError ELSE
    LET data == getArrayDecoder(bytes, canonicalBump.offset) IN
    IF ~data.ok THEN LayoutError ELSE
    Decoded([authority |-> authority.value,
             label |-> label.value,
             lastUpdated |-> lastUpdated.value,
             canonicalBump |-> canonicalBump.value,
             isInitialized |-> isInitialized.value,
             data |-> data.value])

getDataStorageAccountDecoder(bytes) ==
    LET authority == getAddressDecoder(bytes, 0) IN
    IF ~authority.ok THEN LayoutError ELSE
    LET label == fixDecoderSize(bytes, authority.offset, LabelSize) IN
    IF ~label.ok THEN LayoutError ELSE
    LET lastUpdated == getI64Decoder(bytes, label.offset) IN
    IF ~lastUpdated.ok THEN LayoutError ELSE
    LET canonicalBump == getU8Decoder(bytes, lastUpdated.offset) IN
    IF ~canonicalBump.ok THEN LayoutError ELSE
    LET isInitialized == getBooleanDecoder(bytes, canonicalBump.offset) IN
    IF ~isInitialized.ok THEN LayoutError ELSE
    LET data == getArrayDecoder(bytes, isInitialized.offset) IN
    IF ~data.ok THEN LayoutError ELSE
    Decoded([authority |-> authority.value,
             label |-> label.value,
             lastUpdated |-> lastUpdated.value,
             canonicalBump |-> canonicalBump.value,
             isInitialized |-> isInitialized.value,
             data |-> data.value])

-----------------------------------------------------------------------------
(* Inputs of the model *)

\* Code points of labels: NUL, "a", and U+00E9 (two UTF-8 bytes).
Chars == {0, 97, 233}

Letters(n) == [i \in 1..n |-> 97]

\* Labels: a run of letters (none, one, or about a slot's worth) and a tail.
LabelPads == {0, 1} \cup {LabelSize - 3 + k : k \in 0..MaxLabelPad}

Labels == {Letters(n) \o t : n \in LabelPads, t \in SeqsUpTo(Chars, MaxTail)}

DataBytes == {7, 255}

DataArrays == SeqsUpTo(DataBytes, MaxDataLen)

\* "+PooriaGG + Solana + + + + + )", the label of the end-to-end script
TestLabel ==
    <<43, 80, 111, 111, 114, 105, 97, 71, 71, 32, 43, 32, 83, 111, 108, 97, 110,
      97, 32, 43, 32, 43, 32, 43, 32, 43, 32, 43, 32, 41>>

\* an address the client holds no key for
STRANGER == USER_KEYPAIR + 1

Wallets == {USER_KEYPAIR, STRANGER}

-----------------------------------------------------------------------------
(* Address derivation and the ledger's writer *)

\* getAddressEncoder().encode(address): the 32 bytes of the address.
getAddressEncoder(a) ==
    [i \in 1..32 |-> IF i <= 28 THEN 0
                     ELSE IF i = 29 THEN (a \div 16777216) % 256
                     ELSE IF i = 30 THEN (a \div 65536) % 256
                     ELSE IF i = 31 THEN (a \div 256) % 256
                     ELSE a % 256]

RECURSIVE MixBytes(_, _, _)
MixBytes(bytes, lo, hi) ==
    IF lo > hi THEN 0
    ELSE IF lo = hi THEN ((bytes[lo] + 1) * lo) % 251
    ELSE (3 * MixBytes(bytes, lo, (lo + hi) \div 2)
            + MixBytes(bytes, (lo + hi) \div 2 + 1, hi)) % 251

\* getProgramDerivedAddress({ seeds, programAddress }): a deterministic stub of
\* the external deriver, [address, bump] from the seed bytes.
getProgramDerivedAddress(seeds, programAddress) ==
    LET bytes == Flatten(seeds) \o <<programAddress>>
        h == MixBytes(bytes, 1, Len(bytes))
    IN  [address |-> 1000 + h, bump |-> 255 - (h % 2)]

Seeds(authority, label) ==
    <<getUtf8Encoder(<<100, 97, 116, 97, 95, 115, 116, 111, 114, 97, 103, 101, 95,
                       97, 99, 99, 111, 117, 110, 116>>),
      getAddressEncoder(authority),
      getUtf8Encoder(label)>>

dsa_pda_addr(authority, label) ==
    getProgramDerivedAddress(Seeds(authority, label), DATA_STORAGE_PROGRAM_ID).address

\* Little-endian bytes of a 64-bit two's complement number (|v| < 2^31 here).
I64Bytes(v) ==
    IF v >= 0
    THEN [i \in 1..8 |-> IF i = 1 THEN v % 256
                         ELSE IF i = 2 THEN (v \div 256) % 256
                         ELSE IF i = 3 THEN (v \div 65536) % 256
                         ELSE IF i = 4 THEN (v \div 16777216) % 256
                         ELSE 0]
    ELSE [i \in 1..8 |-> 255 - (IF i = 1 THEN (-v - 1) % 256
                                ELSE IF i = 2 THEN ((-v - 1) \div 256) % 256
                                ELSE IF i = 3 THEN ((-v - 1) \div 65536) % 256
                                ELSE IF i = 4 THEN ((-v - 1) \div 16777216) % 256
                                ELSE 0)]

U16Bytes(n) == <<n % 256, (n \div 256) % 256>>

\* The ledger bytes of an account: authority(32) label(30) lastUpdated(8)
\* canonicalBump(1) isInitialized(1) dataLength(2) data.
SerializeAccount(authority, labelSlot, lastUpdated, canonicalBump, isInitialized, data) ==
    getAddressEncoder(authority) \o labelSlot \o I64Bytes(lastUpdated)
        \o <<canonicalBump>> \o <<IF isInitialized THEN 1 ELSE 0>>
        \o U16Bytes(Len(data)) \o data

-----------------------------------------------------------------------------
(* The ledger program, as the instructions' contract describes it *)

Absent == [exists |-> FALSE, bytes |-> <<>>]

Account(bytes) == [exists |-> TRUE, bytes |-> bytes]

LedgerLabels == {TestLabel, Letters(1)}

Pdas == {dsa_pda_addr(USER_KEYPAIR, l) : l \in LedgerLabels}

Roles(tx) == [k \in 1..Len(tx.accounts) |-> tx.accounts[k].role]

Rejected(l) == [ok |-> FALSE, ledger |-> l]

Accepted(l) == [ok |-> TRUE, ledger |-> l]

StoredAuthority(acct) == Take(acct.bytes, 32)

StoredDataLength(acct) == LittleEndian(SubSeq(acct.bytes, 73, 74))

ProcessCreate(l, tx) ==
    LET pda == tx.accounts[1].address
        authority == tx.accounts[2].address
        slot == SubSeq(tx.data.bytes, 2, 1 + LabelSize)
        derived == getProgramDerivedAddress(
                       <<Seeds(authority, <<>>)[1], getAddressEncoder(authority),
                         StripTrailingZeros(slot)>>, DATA_STORAGE_PROGRAM_ID)
    IN  IF /\ Roles(tx) = <<"WRITABLE", "READONLY_SIGNER", "WRITABLE_SIGNER", "READONLY">>
           /\ tx.accounts[4].address = SYSTEM_PROGRAM_ID
           /\ Len(tx.data.bytes) >= 1 + LabelSize
           /\ pda \in DOMAIN l
           /\ ~l[pda].exists
           /\ pda = derived.address
        THEN Accepted([l EXCEPT ![pda] =
                 Account(SerializeAccount(authority, slot, 0, derived.bump, TRUE,
                                          Drop(tx.data.bytes, 1 + LabelSize)))])
        ELSE Rejected(l)

ProcessEdit(l, tx, now) ==
    LET pda == tx.accounts[1].address
        newData == Tail(tx.data.bytes)
        n == Len(tx.accounts)
    IN  IF /\ n >= 2
           /\ pda \in DOMAIN l
           /\ l[pda].exists
           /\ StoredAuthority(l[pda]) = getAddressEncoder(tx.accounts[2].address)
           /\ \/ /\ Len(newData) = StoredDataLength(l[pda])
                 /\ Roles(tx) = <<"WRITABLE", "READONLY_SIGNER">>
              \/ /\ Len(newData) < StoredDataLength(l[pda])
                 /\ Roles(tx) = <<"WRITABLE", "READONLY_SIGNER", "WRITABLE">>
              \/ /\ Len(newData) > StoredDataLength(l[pda])
                 /\ Roles(tx) = <<"WRITABLE", "READONLY_SIGNER", "WRITABLE_SIGNER", "READONLY">>
                 /\ tx.accounts[4].address = SYSTEM_PROGRAM_ID
        THEN Accepted([l EXCEPT ![pda] =
                 Account(Take(l[pda].bytes, 32 + LabelSize) \o I64Bytes(now)
                         \o SubSeq(l[pda].bytes, 71, 72)
                         \o U16Bytes(Len(newData)) \o newData)])
        ELSE Rejected(l)

ProcessClose(l, tx) ==
    LET pda == tx.accounts[1].address
    IN  IF /\ Roles(tx) = <<"WRITABLE", "READONLY_SIGNER", "WRITABLE">>
           /\ Len(tx.data.bytes) = 1
           /\ pda \in DOMAIN l
           /\ l[pda].exists
           /\ StoredAuthority(l[pda]) = getAddressEncoder(tx.accounts[2].address)
        THEN Accepted([l EXCEPT ![pda] = Absent])
        ELSE Rejected(l)

\* The program dispatches on the first payload byte.
ProcessInstruction(l, tx, now) ==
    IF ~tx.data.ok \/ tx.data.bytes = <<>> \/ tx.programAddress # DATA_STORAGE_PROGRAM_ID
    THEN Rejected(l)
    ELSE CASE tx.data.bytes[1] = 0 -> ProcessCreate(l, tx)
           [] tx.data.bytes[1] = 1 -> ProcessEdit(l, tx, now)
           [] tx.data.bytes[1] = 2 -> ProcessClose(l, tx)
           [] OTHER -> Rejected(l)

-----------------------------------------------------------------------------
(* The end-to-end script: sign, send, confirm, read back *)

\* signTransactionMessageWithSigners: the only signer is USER_KEYPAIR (the fee
\* payer); a signer-role account of any other address leaves the transaction
\* without a required signature.
FullySigned(tx) ==
    \A k \in 1..Len(tx.accounts) :
        tx.accounts[k].role \in {"READONLY_SIGNER", "WRITABLE_SIGNER"}
            => tx.accounts[k].address = USER_KEYPAIR

\* sendAndConfirmTransactionFactory(...)(tx): the ledger after the transaction.
sendAndConfirmTransaction(l, tx, now) ==
    IF FullySigned(tx) THEN ProcessInstruction(l, tx, now) ELSE Rejected(l)

\* RPC.getAccountInfo(address).value: null (Absent) when there is no account.
getAccountInfo(l, address) == IF address \in DOMAIN l THEN l[address] ELSE Absent

NotFound == [ok |-> FALSE, value |-> "null"]

\* the script's decode of what it read
parsedAccountData(info) ==
    IF info.exists THEN getDataStorageAccountDecoder(info.bytes) ELSE NotFound

-----------------------------------------------------------------------------
(* State machine *)

NoIx == Instruction(<<>>, EncodeError)

Init ==
    /\ op = "none"
    /\ args = [none |-> TRUE]
    /\ ix = NoIx
    /\ decoded = NotFound
    /\ ledger = [p \in Pdas |-> Absent]
    /\ phase = [p \in Pdas |-> "NonExistent"]
    /\ edits = [p \in Pdas |-> 0]
    /\ born = [p \in Pdas |-> <<>>]
    /\ clock = GenesisTime
    /\ txOk = FALSE
    /\ before = Absent

ledgerVars == <<ledger, phase, edits, born, clock, txOk, before>>

EditOps ==
    {"getEditDataStorageAccountWithNewDataLenIsEqualToOldDataLenInstruction",
     "getEditDataStorageAccountWithNewDataLenLessIsThanOldDataLenInstruction",
     "getEditDataStorageAccountWithNewDataLenIsBiggerThanOldDataLenInstruction"}

\* A call of an assembler alone: the instruction is built and nothing is sent.
\* The codecs and assemblers keep no state between calls, so a behaviour of
\* the codec layer is one call.
Assemble(name, params, i) ==
    /\ op' = name
    /\ args' = params
    /\ ix' = i
    /\ decoded' = NotFound
    /\ UNCHANGED ledgerVars

\* One block of the script: assemble, sign, send and confirm, then read the
\* account back at `address` and decode it.
Submit(name, params, i, address) ==
    /\ op' = name
    /\ args' = params
    /\ ix' = i
    /\ \E r \in {sendAndConfirmTransaction(ledger, ix', clock)} :
       LET was == getAccountInfo(ledger, address)
           now == getAccountInfo(r.ledger, address)
       IN  /\ ledger' = r.ledger
           /\ txOk' = r.ok
           /\ before' = was
           /\ decoded' = parsedAccountData(now)
           /\ IF address \in Pdas
              THEN /\ phase' = [phase EXCEPT ![address] =
                          IF ~was.exists /\ now.exists THEN "Created"
                          ELSE IF was.exists /\ now.exists /\ r.ok THEN "Edited"
                          ELSE IF was.exists /\ ~now.exists THEN "Closed"
                          ELSE @]
                   /\ born' = [born EXCEPT ![address] =
                          IF ~was.exists /\ now.exists THEN now.bytes ELSE @]
                   /\ edits' = [edits EXCEPT ![address] =
                          IF ~was.exists /\ now.exists THEN 0
                          ELSE IF r.ok /\ name \in EditOps THEN @ + 1
                          ELSE @]
              ELSE UNCHANGED <<phase, born, edits>>
    /\ clock' = clock + 1

CreateParams(pdas, authorities, payers, labels, arrays) ==
    {[new_data_storage_pda |-> pda, data_storage_authority |-> a,
      funding_account |-> f, label |-> l, data |-> d] :
        pda \in pdas, a \in authorities, f \in payers, l \in labels, d \in arrays}

EditParams(pdas, authorities, arrays) ==
    {[data_storage_pda |-> pda, data_storage_authority |-> a, new_data |-> d] :
        pda \in pdas, a \in authorities, d \in arrays}

\* an address that is no derived address of the program
NotDerived == 1 + USER_KEYPAIR + 1

(* Calls of the assemblers and codecs on their own *)

CreateInstruction ==
    /\ op = "none"
    /\ \E p \in CreateParams(Pdas \cup {NotDerived}, Wallets, Wallets, Labels, DataArrays) :
        Assemble("getCreateDataStorageAccountInstruction", p,
                 getCreateDataStorageAccountInstruction(p))

EditEqualInstruction ==
    /\ op = "none"
    /\ \E p \in EditParams(Pdas \cup {NotDerived}, Wallets, DataArrays) :
        Assemble("getEditDataStorageAccountWithNewDataLenIsEqualToOldDataLenInstruction", p,
                 getEditDataStorageAccountWithNewDataLenIsEqualToOldDataLenInstruction(p))

EditLessInstruction ==
    /\ op = "none"
    /\ \E e \in EditParams(Pdas \cup {NotDerived}, Wallets, DataArrays), w \in Wallets :
        LET p == [data_storage_pda |-> e.data_storage_pda,
                  data_storage_authority |-> e.data_storage_authority,
                  rent_receiver_account |-> w, new_data |-> e.new_data]
        IN  Assemble("getEditDataStorageAccountWithNewDataLenLessIsThanOldDataLenInstruction", p,
                     getEditDataStorageAccountWithNewDataLenLessIsThanOldDataLenInstruction(p))

EditBiggerInstruction ==
    /\ op = "none"
    /\ \E e \in EditParams(Pdas \cup {NotDerived}, Wallets, DataArrays), w \in Wallets :
        LET p == [data_storage_pda |-> e.data_storage_pda,
                  data_storage_authority |-> e.data_storage_authority,
                  funding_account |-> w, new_data |-> e.new_data]
        IN  Assemble("getEditDataStorageAccountWithNewDataLenIsBiggerThanOldDataLenInstruction", p,
                     getEditDataStorageAccountWithNewDataLenIsBiggerThanOldDataLenInstruction(p))

CloseInstruction ==
    /\ op = "none"
    /\ \E pda \in Pdas \cup {NotDerived}, a \in Wallets, w \in Wallets :
        LET p == [data_storage_pda |-> pda, data_storage_authority |-> a,
                  rent_exempt_receiver_account |-> w]
        IN  Assemble("getCloseDataStorageAccountInstruction", p,
                     getCloseDataStorageAccountInstruction(p))

\* A discriminator the caller puts in the value it hands to an encoder.
CallerDiscriminators == {NoField, 0, 1, 2, 9}

EncodeCreateData ==
    /\ op = "none"
    /\ \E l \in Labels, d \in DataArrays, size \in 0..MaxDataLen, c \in CallerDiscriminators :
        LET v == [discriminator |-> c, label |-> l, data |-> d]
        IN  Assemble("getCreateDataStorageAccountInstructionDataEncoder",
                     [data_size |-> size, value |-> v],
                     Instruction(<<>>, getCreateDataStorageAccountInstructionDataEncoder(size, v)))

EncodeEditData ==
    /\ op = "none"
    /\ \E d \in DataArrays, size \in 0..MaxDataLen, c \in CallerDiscriminators :
        LET v == [discriminator |-> c, newData |-> d]
        IN  Assemble("getEditDataStorageAccountInstructionDataEncoder",
                     [data_size |-> size, value |-> v],
                     Instruction(<<>>, getEditDataStorageAccountInstructionDataEncoder(size, v)))

EncodeCloseData ==
    /\ op = "none"
    /\ \E c \in CallerDiscriminators :
        LET v == [discriminator |-> c]
        IN  Assemble("getCloseDataStorageAccountInstructionDataEncoder",
                     [value |-> v],
                     Instruction(<<>>, getCloseDataStorageAccountInstructionDataEncoder(v)))

(* Decoding account bytes *)

Timestamps == {-1, 0, 1, 258}

Bumps == {0, 255}

\* Accounts the ledger can hold: the label fits its slot.
AccountInputs(labels) ==
    {[authority |-> a, label |-> l, lastUpdated |-> t, canonicalBump |-> b,
      isInitialized |-> init, data |-> d] :
        a \in Wallets, l \in {x \in labels : Len(getUtf8Encoder(x)) <= LabelSize},
        t \in Timestamps, b \in Bumps, init \in BOOLEAN, d \in DataArrays}

LedgerBytes(acct) ==
    SerializeAccount(acct.authority, fixEncoderSize(getUtf8Encoder(acct.label), LabelSize),
                     acct.lastUpdated, acct.canonicalBump, acct.isInitialized, acct.data)

\* getDataStorageAccountDecoder().decode(bytes) of an account's ledger bytes
DecodeAccount ==
    /\ op = "none"
    /\ \E acct \in AccountInputs(Labels) :
        /\ op' = "decode"
        /\ args' = [account |-> acct, bytes |-> LedgerBytes(acct)]
        /\ decoded' = getDataStorageAccountDecoder(LedgerBytes(acct))
        /\ ix' = NoIx
        /\ UNCHANGED ledgerVars

\* Buffers that are not an account's bytes: cut short, followed by more
\* bytes, or with another number in the dataLength field.
CutPoints(full) == {0, 31, 32, 61, 62, 69, 70, 71, 72, 73} \cup (74..(Len(full) - 1))

Buffers(acct) ==
    LET full == LedgerBytes(acct)
    IN  {Take(full, n) : n \in CutPoints(full)}
            \cup {full \o <<9>>}
            \cup {Take(full, 72) \o U16Bytes(n) \o Drop(full, 74) :
                      n \in {0, Len(acct.data) + 1, Len(acct.data) + 256}}

DecodeBuffer ==
    /\ op = "none"
    /\ \E acct \in AccountInputs({<<>>, TestLabel}) :
        \E buf \in Buffers(acct) :
            /\ acct.isInitialized /\ acct.canonicalBump = 255
            /\ op' = "decode"
            /\ args' = [account |-> acct, bytes |-> buf]
            /\ decoded' = getDataStorageAccountDecoder(buf)
            /\ ix' = NoIx
            /\ UNCHANGED ledgerVars

Next ==
    \/ CreateInstruction
    \/ EditEqualInstruction
    \/ EditLessInstruction
    \/ EditBiggerInstruction
    \/ CloseInstruction
    \/ EncodeCreateData
    \/ EncodeEditData
    \/ EncodeCloseData
    \/ DecodeAccount
    \/ DecodeBuffer

Spec == Init /\ [][Next]_vars

(* The script's blocks, run in any order against the ledger *)

\* data arrays of the script: one of each length, and a second of length one
LedgerData == {[k \in 1..n |-> 7] : n \in 0..MaxDataLen} \cup {<<255>>}

SubmitCreate ==
    /\ clock < GenesisTime + MaxClock
    /\ \E p \in CreateParams(Pdas, {USER_KEYPAIR}, {USER_KEYPAIR}, LedgerLabels, LedgerData) :
        Submit("getCreateDataStorageAccountInstruction", p,
               getCreateDataStorageAccountInstruction(p), p.new_data_storage_pda)

SubmitEditEqual ==
    /\ clock < GenesisTime + MaxClock
    /\ \E p \in EditParams(Pdas, {USER_KEYPAIR}, LedgerData) :
        Submit("getEditDataStorageAccountWithNewDataLenIsEqualToOldDataLenInstruction", p,
               getEditDataStorageAccountWithNewDataLenIsEqualToOldDataLenInstruction(p),
               p.data_storage_pda)

SubmitEditLess ==
    /\ clock < GenesisTime + MaxClock
    /\ \E e \in EditParams(Pdas, {USER_KEYPAIR}, LedgerData) :
        LET p == [data_storage_pda |-> e.data_storage_pda,
                  data_storage_authority |-> e.data_storage_authority,
                  rent_receiver_account |-> USER_KEYPAIR, new_data |-> e.new_data]
        IN  Submit("getEditDataStorageAccountWithNewDataLenLessIsThanOldDataLenInstruction", p,
                   getEditDataStorageAccountWithNewDataLenLessIsThanOldDataLenInstruction(p),
                   p.data_storage_pda)

SubmitEditBigger ==
    /\ clock < GenesisTime + MaxClock
    /\ \E e \in EditParams(Pdas, {USER_KEYPAIR}, LedgerData) :
        LET p == [data_storage_pda |-> e.data_storage_pda,
                  data_storage_authority |-> e.data_storage_authority,
                  funding_account |-> USER_KEYPAIR, new_data |-> e.new_data]
        IN  Submit("getEditDataStorageAccountWithNewDataLenIsBiggerThanOldDataLenInstruction", p,
                   getEditDataStorageAccountWithNewDataLenIsBiggerThanOldDataLenInstruction(p),
                   p.data_storage_pda)

SubmitClose ==
    /\ clock < GenesisTime + MaxClock
    /\ \E pda \in Pdas, a \in Wallets :
        LET p == [data_storage_pda |-> pda, data_storage_authority |-> a,
                  rent_exempt_receiver_account |-> USER_KEYPAIR]
        IN  Submit("getCloseDataStorageAccountInstruction", p,
                   getCloseDataStorageAccountInstruction(p), p.data_storage_pda)

NextLedger ==
    \/ SubmitCreate
    \/ SubmitEditEqual
    \/ SubmitEditLess
    \/ SubmitEditBigger
    \/ SubmitClose

SpecLedger == Init /\ [][NextLedger]_vars

-----------------------------------------------------------------------------
(* Properties *)

CreateOps ==
    {"getCreateDataStorageAccountInstruction",
     "getCreateDataStorageAccountInstructionDataEncoder"}

EditEncodes == EditOps \cup {"getEditDataStorageAccountInstructionDataEncoder"}

CloseOps ==
    {"getCloseDataStorageAccountInstruction",
     "getCloseDataStorageAccountInstructionDataEncoder"}

\* C1: whenever an encoder returns a payload, its first byte is 0 for Create,
\* 1 for Edit and 2 for Close, whatever discriminator the caller's value holds.
C1_Discriminator ==
    ix.data.ok =>
        /\ op \in CreateOps => ix.data.bytes[1] = 0
        /\ op \in EditEncodes => ix.data.bytes[1] = 1
        /\ op \in CloseOps => ix.data.bytes[1] = 2

\* a Create value whose caller set discriminator 2 was encoded
C1_Witness ==
    /\ op = "getCreateDataStorageAccountInstructionDataEncoder"
    /\ args.value.discriminator = 2
    /\ ix.data.ok
    /\ ix.data.bytes[1] = 0

\* C2: the Create payload of getCreateDataStorageAccountInstruction is byte 0,
\* a 30-byte slot holding the label's UTF-8 bytes (zero-padded when shorter,
\* cut to the first 30 when longer, no error), then the data bytes verbatim:
\* 1 + 30 + len(data) bytes.
C2_CreatePayload ==
    op = "getCreateDataStorageAccountInstruction" =>
        LET utf8 == getUtf8Encoder(args.label)
            bytes == ix.data.bytes
        IN  /\ ix.data.ok
            /\ Len(bytes) = 1 + 30 + Len(args.data)
            /\ bytes[1] = 0
            /\ \A k \in 1..30 : bytes[1 + k] = IF k <= Len(utf8) THEN utf8[k] ELSE 0
            /\ \A k \in 1..Len(args.data) : bytes[31 + k] = args.data[k]

\* a label longer than its slot, cut in the middle of a two-byte character
C2_Witness ==
    /\ op = "getCreateDataStorageAccountInstruction"
    /\ Len(getUtf8Encoder(args.label)) > 30
    /\ getUtf8Encoder(args.label)[30] = 195
    /\ Len(args.data) = MaxDataLen
    /\ ix.data.ok

\* C3: the three Edit assemblers give the payload 1 followed by newData and
\* differ in the account list only: 2, 3 and 4 accounts with the roles and
\* the order of the program's contract.
C3_EditAssemblers ==
    op \in EditOps =>
        /\ ix.programAddress = DATA_STORAGE_PROGRAM_ID
        /\ ix.data.ok
        /\ ix.data.bytes = <<1>> \o args.new_data
        /\ Len(ix.data.bytes) = 1 + Len(args.new_data)
        /\ op = "getEditDataStorageAccountWithNewDataLenIsEqualToOldDataLenInstruction" =>
             ix.accounts =
                <<[address |-> args.data_storage_pda, role |-> "WRITABLE"],
                  [address |-> args.data_storage_authority, role |-> "READONLY_SIGNER"]>>
        /\ op = "getEditDataStorageAccountWithNewDataLenLessIsThanOldDataLenInstruction" =>
             ix.accounts =
                <<[address |-> args.data_storage_pda, role |-> "WRITABLE"],
                  [address |-> args.data_storage_authority, role |-> "READONLY_SIGNER"],
                  [address |-> args.rent_receiver_account, role |-> "WRITABLE"]>>
        /\ op = "getEditDataStorageAccountWithNewDataLenIsBiggerThanOldDataLenInstruction" =>
             ix.accounts =
                <<[address |-> args.data_storage_pda, role |-> "WRITABLE"],
                  [address |-> args.data_storage_authority, role |-> "READONLY_SIGNER"],
                  [address |-> args.funding_account, role |-> "WRITABLE_SIGNER"],
                  [address |-> SYSTEM_PROGRAM_ID, role |-> "READONLY"]>>

\* the shrinking variant assembled, receiver and authority being different
C3_Witness ==
    /\ op = "getEditDataStorageAccountWithNewDataLenLessIsThanOldDataLenInstruction"
    /\ args.rent_receiver_account # args.data_storage_authority
    /\ Len(args.new_data) = MaxDataLen
    /\ Len(ix.accounts) = 3

\* C5: Create and Close carry the account lists of the program's contract and
\* target the program; Create passes the caller's account address through
\* as given; the Close payload is the single byte 2.
C5_CreateCloseAccounts ==
    /\ op = "getCreateDataStorageAccountInstruction" =>
        /\ ix.programAddress = DATA_STORAGE_PROGRAM_ID
        /\ ix.accounts =
             <<[address |-> args.new_data_storage_pda, role |-> "WRITABLE"],
               [address |-> args.data_storage_authority, role |-> "READONLY_SIGNER"],
               [address |-> args.funding_account, role |-> "WRITABLE_SIGNER"],
               [address |-> SYSTEM_PROGRAM_ID, role |-> "READONLY"]>>
    /\ op = "getCloseDataStorageAccountInstruction" =>
        /\ ix.programAddress = DATA_STORAGE_PROGRAM_ID
        /\ ix.accounts =
             <<[address |-> args.data_storage_pda, role |-> "WRITABLE"],
               [address |-> args.data_storage_authority, role |-> "READONLY_SIGNER"],
               [address |-> args.rent_exempt_receiver_account, role |-> "WRITABLE"]>>
        /\ ix.data = [ok |-> TRUE, bytes |-> <<2>>]

\* Create assembled for an address that is not the one derived from its
\* authority and label, funded by another wallet than the authority
C5_Witness ==
    /\ op = "getCreateDataStorageAccountInstruction"
    /\ args.new_data_storage_pda # dsa_pda_addr(args.data_storage_authority, args.label)
    /\ args.funding_account # args.data_storage_authority
    /\ ix.accounts[1].address = args.new_data_storage_pda

\* the number in the dataLength field of a buffer that has the 74-byte prefix
DeclaredLength(bytes) == bytes[73] + 256 * bytes[74]

WellFormed(bytes) == Len(bytes) >= 74 /\ Len(bytes) - 74 >= DeclaredLength(bytes)

\* C6: decoding fails with a LayoutError whenever the buffer is shorter than
\* the 74-byte prefix or its dataLength field declares more bytes than follow
\* the prefix, and succeeds for every other buffer.
C6_LayoutError ==
    op = "decode" => (decoded.ok <=> WellFormed(args.bytes))

\* C6, apart from the 72-byte buffer: the cases of the claim the decoder does
\* treat as the claim says.
C6_ExceptPrefixWithoutLength ==
    op = "decode" /\ Len(args.bytes) # 72 => (decoded.ok <=> WellFormed(args.bytes))

\* the claim's example: 74 bytes whose dataLength field says 2 (or more)
C6_Scenario ==
    /\ op = "decode"
    /\ Len(args.bytes) = 74
    /\ DeclaredLength(args.bytes) >= 1
    /\ ~decoded.ok

\* C7: decoding the ledger bytes of an account whose label fits the slot gives
\* back its authority, lastUpdated, canonicalBump, isInitialized and data, and
\* its label with only the trailing padding stripped.
C7_RoundTrip ==
    op = "decode" /\ args.bytes = LedgerBytes(args.account) =>
        /\ decoded.ok
        /\ decoded.value.authority = args.account.authority
        /\ decoded.value.lastUpdated = args.account.lastUpdated
        /\ decoded.value.canonicalBump = args.account.canonicalBump
        /\ decoded.value.isInitialized = args.account.isInitialized
        /\ decoded.value.data = args.account.data
        /\ decoded.value.label = StripTrailingZeros(args.account.label)

\* C7, for labels that hold no NUL character: the round trip is exact.
C7_RoundTripWithoutNul ==
    /\ op = "decode"
    /\ args.bytes = LedgerBytes(args.account)
    /\ \A k \in 1..Len(args.account.label) : args.account.label[k] # 0
    => decoded = Decoded(args.account)

\* a label of exactly 30 bytes, a negative timestamp and data came back whole
C7_FullSlot ==
    /\ op = "decode"
    /\ args.bytes = LedgerBytes(args.account)
    /\ Len(getUtf8Encoder(args.account.label)) = 30
    /\ 233 \in {args.account.label[k] : k \in 1..Len(args.account.label)}
    /\ args.account.lastUpdated < 0
    /\ Len(args.account.data) = MaxDataLen
    /\ decoded = Decoded(args.account)

\* The Edit assembler the size delta calls for.
VariantFor(oldLen, newLen) ==
    IF newLen = oldLen
    THEN "getEditDataStorageAccountWithNewDataLenIsEqualToOldDataLenInstruction"
    ELSE IF newLen < oldLen
    THEN "getEditDataStorageAccountWithNewDataLenLessIsThanOldDataLenInstruction"
    ELSE "getEditDataStorageAccountWithNewDataLenIsBiggerThanOldDataLenInstruction"

\* The roles of the account list the program expects for a size delta.
RolesFor(oldLen, newLen) ==
    IF newLen = oldLen THEN <<"WRITABLE", "READONLY_SIGNER">>
    ELSE IF newLen < oldLen THEN <<"WRITABLE", "READONLY_SIGNER", "WRITABLE">>
    ELSE <<"WRITABLE", "READONLY_SIGNER", "WRITABLE_SIGNER", "READONLY">>

C8_LifecycleState ==
    /\ \A p \in Pdas :
        /\ ledger[p].exists <=> phase[p] \in {"Created", "Edited"}
        /\ phase[p] = "Closed" => getAccountInfo(ledger, p) = Absent
    /\ op = "getCloseDataStorageAccountInstruction" /\ txOk =>
        /\ phase[args.data_storage_pda] = "Closed"
        /\ decoded = NotFound

C8_LifecycleStep ==
    \A p \in Pdas :
        /\ phase'[p] = "Created" /\ phase[p] # "Created" =>
            /\ op' = "getCreateDataStorageAccountInstruction"
            /\ phase[p] \in {"NonExistent", "Closed"}
        /\ phase'[p] = "Closed" /\ phase[p] # "Closed" =>
            /\ op' = "getCloseDataStorageAccountInstruction"
            /\ phase[p] \in {"Created", "Edited"}
        /\ phase[p] = "Closed" /\ op' \in EditOps \cup CloseOps =>
            /\ phase'[p] = "Closed"
            /\ ledger'[p] = Absent
            /\ args'.data_storage_pda = p => ~txOk' /\ decoded' = NotFound

\* C8: the lifecycle holds in every state and over every step of every
\* sequence of Create, Edit and Close blocks.
C8_Lifecycle == [](C8_LifecycleState) /\ [][C8_LifecycleStep]_vars

\* an Edit was sent to an address after its account was closed
C8_Witness ==
    /\ op \in EditOps
    /\ phase[args.data_storage_pda] = "Closed"
    /\ decoded = NotFound
    /\ ~txOk

\* the decoded view of account bytes
View(bytes) == getDataStorageAccountDecoder(bytes).value

\* C9: through every sequence of Edits an account keeps the authority, label
\* and canonicalBump of its creation; a confirmed Edit makes data the
\* submitted newData and changes nothing but data and lastUpdated.
C9_EditFrame ==
    /\ \A p \in Pdas : ledger[p].exists =>
        /\ View(ledger[p].bytes).authority = View(born[p]).authority
        /\ View(ledger[p].bytes).label = View(born[p]).label
        /\ View(ledger[p].bytes).canonicalBump = View(born[p]).canonicalBump
        /\ Take(ledger[p].bytes, 62) = Take(born[p], 62)
    /\ op \in EditOps /\ txOk =>
        /\ decoded.ok
        /\ decoded.value.data = args.new_data
        /\ decoded.value = [View(before.bytes) EXCEPT
                                !.data = args.new_data,
                                !.lastUpdated = decoded.value.lastUpdated]

\* a second confirmed Edit, to data other than the account was created with
C9_Witness ==
    /\ op \in EditOps
    /\ txOk
    /\ edits[args.data_storage_pda] >= 2
    /\ decoded.value.data # View(born[args.data_storage_pda]).data
    /\ decoded.value.label = View(born[args.data_storage_pda]).label

\* C10: an existing account's lastUpdated is 0 exactly when no Edit of it was
\* confirmed since its creation; right after Create it is 0 with
\* isInitialized true.
C10_LastUpdated ==
    /\ \A p \in Pdas : ledger[p].exists =>
        /\ View(ledger[p].bytes).lastUpdated = 0 <=> edits[p] = 0
        /\ View(ledger[p].bytes).isInitialized
    /\ op = "getCreateDataStorageAccountInstruction" /\ txOk =>
        /\ decoded.ok
        /\ decoded.value.lastUpdated = 0
        /\ decoded.value.isInitialized

\* an equal-length Edit was confirmed
C10_Witness ==
    /\ op = "getEditDataStorageAccountWithNewDataLenIsEqualToOldDataLenInstruction"
    /\ txOk
    /\ decoded.ok
    /\ decoded.value.lastUpdated # 0
    /\ Len(decoded.value.data) = Len(View(before.bytes).data)

====
